---- MODULE Spec2Model ----
(***************************************************************************)
(* Model of lss.py, the image-sequence lister of bdelonglee/pytools:       *)
(* detect_sequences (directory walk, filename pattern, grouping, range and *)
(* gap analysis), format_size, display_results and main.                   *)
(*                                                                         *)
(* Text is modelled as sequences of one-character strings, so that         *)
(* formatting, parsing, padding and the lexicographic order of Python      *)
(* strings are computed, not assumed.                                      *)
(***************************************************************************)
EXTENDS Integers, Sequences, FiniteSets, TLC

(***************************************************************************)
(* Bounds of the model.                                                    *)
(***************************************************************************)
\* the largest number of files in the scanned tree
MaxFiles == 3
\* the largest value of the depth argument
MaxDepthArg == 2
\* the analysis specification: the largest number of files of a sequence,
\* the largest frame number, and how often the walk may reach a directory
MaxLen == 3
MaxFrame == 11
MaxVisits == 2
\* the largest file size of the analysis specification
MaxSize == 2
\* the largest number of summaries handed to the renderer
MaxSeqs == 3

(***************************************************************************)
(* Text helpers.                                                           *)
(***************************************************************************)
\* the characters the model uses, in code point order (Python compares
\* strings by code point)
CharOrder ==
    << " ", "*", ",", "-", ".", "/",
       "0", "1", "2", "3", "4", "5", "6", "7", "8", "9",
       "=", "B", "G", "K", "M", "T", "[", "]", "_",
       "a", "b", "c", "d", "e", "g", "h", "i", "j", "k", "l", "m", "n", "o",
       "p", "r", "s", "t", "u", "v", "x", "z" >>

ord(c) == CHOOSE i \in 1..Len(CharOrder) : CharOrder[i] = c

DigitChars == <<"0", "1", "2", "3", "4", "5", "6", "7", "8", "9">>

\* \d of the pattern
DigitSet == { DigitChars[i] : i \in 1..10 }
IsDigit(c) == c \in DigitSet

\* \w of the pattern: letters, digits and the underscore
WordSet ==
    { CharOrder[i] : i \in { k \in 1..Len(CharOrder) :
                               CharOrder[k] \notin {" ", "*", ",", "-", ".", "/",
                                                    "=", "[", "]"} } }
IsWord(c) == c \in WordSet

\* Python's < on str: lexicographic by code point, a proper prefix is smaller
RECURSIVE StrLess(_, _)
StrLess(a, b) ==
    IF b = <<>> THEN FALSE
    ELSE IF a = <<>> THEN TRUE
    ELSE IF a[1] # b[1] THEN ord(a[1]) < ord(b[1])
    ELSE StrLess(Tail(a), Tail(b))

\* str(n) and f"{n}" for an int n >= 0
RECURSIVE str(_)
str(n) == IF n < 10 THEN <<DigitChars[n + 1]>>
          ELSE str(n \div 10) \o <<DigitChars[(n % 10) + 1]>>

\* int(text) for a text of decimal digits
RECURSIVE int(_)
int(t) == IF Len(t) = 0 THEN 0
          ELSE 10 * int(SubSeq(t, 1, Len(t) - 1))
               + ((CHOOSE i \in 1..10 : DigitChars[i] = t[Len(t)]) - 1)

\* c * n for a one-character string c
RECURSIVE Repeat(_, _)
Repeat(c, n) == IF n <= 0 THEN <<>> ELSE <<c>> \o Repeat(c, n - 1)

\* f"{s:<w}": left-justified in a field of width w, never truncated
ljust(s, w) == s \o Repeat(" ", w - Len(s))

\* sep.join(parts)
RECURSIVE join(_, _)
join(sep, parts) ==
    IF Len(parts) = 0 THEN <<>>
    ELSE IF Len(parts) = 1 THEN parts[1]
    ELSE parts[1] \o sep \o join(sep, Tail(parts))

\* text.count(c)
RECURSIVE count(_, _)
count(t, c) == IF Len(t) = 0 THEN 0
               ELSE (IF t[1] = c THEN 1 ELSE 0) + count(Tail(t), c)

(***************************************************************************)
(* The filename pattern  ^(.*?)(\.\w+)?\.(\d+)\.(\w+)$                     *)
(***************************************************************************)
AllWord(t) == Len(t) >= 1 /\ \A i \in 1..Len(t) : IsWord(t[i])
AllDigit(t) == Len(t) >= 1 /\ \A i \in 1..Len(t) : IsDigit(t[i])

\* \.(\d+)\.(\w+)$ on the text r: the set of <<digits, extension>> splits
TailSplits(r) ==
    IF Len(r) = 0 \/ r[1] # "." THEN {}
    ELSE { <<SubSeq(r, 2, q - 1), SubSeq(r, q + 1, Len(r))>> :
             q \in { q \in 3..Len(r) :
                       /\ r[q] = "."
                       /\ AllDigit(SubSeq(r, 2, q - 1))
                       /\ AllWord(SubSeq(r, q + 1, Len(r))) } }

\* (\.\w+) followed by the tail: the set of <<sub, digits, extension>> splits
SubSplits(r) ==
    IF Len(r) = 0 \/ r[1] # "." THEN {}
    ELSE UNION { { <<SubSeq(r, 1, p), t[1], t[2]>> :
                     t \in TailSplits(SubSeq(r, p + 1, Len(r))) } :
                 p \in { p \in 2..Len(r) : AllWord(SubSeq(r, 2, p)) } }

\* the rest of the name after the base: the optional group is greedy, so a
\* split with a sub-category is preferred over one without
RestMatch(r) ==
    LET subs == SubSplits(r)
        tails == TailSplits(r)
    IN  IF subs # {} THEN
            LET s == CHOOSE s \in subs : \A o \in subs : Len(o[1]) <= Len(s[1])
            IN  [ok |-> TRUE, sub |-> s[1], digits |-> s[2], ext |-> s[3]]
        ELSE IF tails # {} THEN
            LET t == CHOOSE t \in tails : TRUE
            IN  [ok |-> TRUE, sub |-> <<>>, digits |-> t[1], ext |-> t[2]]
        ELSE [ok |-> FALSE, sub |-> <<>>, digits |-> <<>>, ext |-> <<>>]

\* the base is non-greedy: the shortest prefix, from length i on, after which
\* the rest matches
RECURSIVE match_from(_, _)
match_from(filename, i) ==
    IF i > Len(filename) THEN [ok |-> FALSE]
    ELSE LET m == RestMatch(SubSeq(filename, i + 1, Len(filename)))
         IN  IF m.ok
             THEN [ok |-> TRUE,
                   base_name |-> SubSeq(filename, 1, i),
                   sub_category |-> m.sub,
                   frame_text |-> m.digits,
                   extension |-> m.ext]
             ELSE match_from(filename, i + 1)

\* regex.match(filename); ok = FALSE is Python's None
regex_match(filename) == match_from(filename, 0)

(***************************************************************************)
(* Python values.                                                          *)
(***************************************************************************)
\* None where an int is expected (file_size, average_size, missing_start)
NoneInt == -1
\* None where a str is expected (resolution)
NoneStr == <<"None">>

\* A frame is the tuple (frame_number, resolution, file_size) of the code.
\* A key is the tuple (base_name, sub_category, padding, extension,
\* relative_path).  The dict `sequences` keeps insertion order (Python 3.7+)
\* and is a sequence of [key, frames] items.
dict_index(d, key) ==
    IF \E i \in 1..Len(d) : d[i].key = key
    THEN CHOOSE i \in 1..Len(d) : d[i].key = key
    ELSE 0

\* sequences[key].append(frame) on a defaultdict(list)
dict_append(d, key, frame) ==
    LET i == dict_index(d, key)
    IN  IF i = 0 THEN Append(d, [key |-> key, frames |-> <<frame>>])
        ELSE [d EXCEPT ![i].frames = Append(@, frame)]

(***************************************************************************)
(* detect_sequences, second half: one summary per key.                     *)
(***************************************************************************)
\* the sort key of frames.sort
frame_key(f) == f[1]

\* list.sort is stable: x goes before the first element with a larger key
RECURSIVE insert_frame(_, _)
insert_frame(lst, x) ==
    IF Len(lst) = 0 THEN <<x>>
    ELSE IF frame_key(x) < frame_key(lst[1]) THEN <<x>> \o lst
    ELSE <<lst[1]>> \o insert_frame(Tail(lst), x)

RECURSIVE sort_frames(_)
sort_frames(frames) ==
    IF Len(frames) = 0 THEN <<>>
    ELSE insert_frame(sort_frames(SubSeq(frames, 1, Len(frames) - 1)),
                      frames[Len(frames)])

\* the text appended for a run missing_start..last_missing
range_text(missing_start, last_missing) ==
    IF last_missing = missing_start THEN str(missing_start)
    ELSE str(missing_start) \o <<"-">> \o str(last_missing)

\* for i in range(frames[0][0], frames[-1][0]): ...   (the loop state is
\* missing_start and missing_ranges)
RECURSIVE missing_loop(_, _, _, _, _)
missing_loop(i, stop, present, missing_start, missing_ranges) ==
    IF i >= stop THEN
        [missing_start |-> missing_start, missing_ranges |-> missing_ranges]
    ELSE IF i \notin present THEN
        missing_loop(i + 1, stop, present,
                     IF missing_start = NoneInt THEN i ELSE missing_start,
                     missing_ranges)
    ELSE IF missing_start # NoneInt THEN
        missing_loop(i + 1, stop, present, NoneInt,
                     Append(missing_ranges, range_text(missing_start, i - 1)))
    ELSE missing_loop(i + 1, stop, present, missing_start, missing_ranges)

\* missing_ranges_of without the flush after the loop
missing_ranges_unflushed(frames) ==
    missing_loop(frames[1][1], frames[Len(frames)][1],
                 { frames[k][1] : k \in 1..Len(frames) }, NoneInt, <<>>).missing_ranges

\* the loop and the flush after it, on the sorted frames
missing_ranges_of(frames) ==
    LET first == frames[1][1]
        last == frames[Len(frames)][1]
        present == { frames[k][1] : k \in 1..Len(frames) }
        after == missing_loop(first, last, present, NoneInt, <<>>)
    IN  IF after.missing_start # NoneInt
        THEN Append(after.missing_ranges,
                    range_text(after.missing_start, last - 1))
        ELSE after.missing_ranges

\* sum(f[2] for f in frames if f[2] is not None)
RECURSIVE total_size_of(_)
total_size_of(frames) ==
    IF Len(frames) = 0 THEN 0
    ELSE (IF frames[1][3] # NoneInt THEN frames[1][3] ELSE 0)
         + total_size_of(Tail(frames))

\* average_size_of rounding to the nearest integer instead of down
average_size_rounded(total_size, frames) ==
    IF total_size # 0 /\ Len(frames) # 0
    THEN (2 * total_size + Len(frames)) \div (2 * Len(frames))
    ELSE NoneInt

\* total_size // len(frames) if total_size and frames else None
average_size_of(total_size, frames) ==
    IF total_size # 0 /\ Len(frames) # 0
    THEN total_size \div Len(frames)
    ELSE NoneInt

\* set(res[1] for res in frames if res[1] is not None)
resolutions_of(frames) ==
    { frames[k][2] : k \in { k \in 1..Len(frames) : frames[k][2] # NoneStr } }

\* the orders in which a set of strings may be iterated (the iteration order
\* of a Python set of str depends on the hash seed)
RECURSIVE set_orders(_)
set_orders(S) ==
    IF S = {} THEN {<<>>}
    ELSE UNION { { <<x>> \o rest : rest \in set_orders(S \ {x}) } : x \in S }

\* ", ".join(resolutions) if resolutions else None, for one iteration order
resolution_strs(frames) ==
    IF resolutions_of(frames) = {} THEN {NoneStr}
    ELSE { join(<<",", " ">>, o) : o \in set_orders(resolutions_of(frames)) }

\* the body of the loop over sequences.items(): the tuple appended to
\* results, given the text chosen for the resolutions
summary(key, unsorted, resolution_str) ==
    LET frames == sort_frames(unsorted)
        missing_ranges == missing_ranges_of(frames)
        total_size == total_size_of(frames)
    IN  [relative_path |-> key[5],
         name |-> key[1],
         sub_category |-> key[2],
         frame_range |-> <<"[">> \o str(frames[1][1]) \o <<"-">>
                         \o str(frames[Len(frames)][1]) \o <<"]">>,
         padding |-> str(key[3]),
         extension |-> key[4],
         count |-> Len(frames),
         resolution |-> resolution_str,
         missing |-> IF Len(missing_ranges) # 0
                     THEN <<"[">> \o join(<<",", " ">>, missing_ranges) \o <<"]">>
                     ELSE <<>>,
         total_size |-> total_size,
         average_size |-> average_size_of(total_size, frames)]

\* the result lists detect_sequences may return for the dict d
RECURSIVE summaries(_)
summaries(d) ==
    IF Len(d) = 0 THEN {<<>>}
    ELSE { Append(before, summary(d[Len(d)].key, d[Len(d)].frames, r)) :
             before \in summaries(SubSeq(d, 1, Len(d) - 1)),
             r \in resolution_strs(d[Len(d)].frames) }

(***************************************************************************)
(* The scanned tree.  A directory is the sequence of the names on the way  *)
(* from the scan root (the root is <<>>); a file is a record with its      *)
(* directory, its name, its size in bytes, and whether it is an image that *)
(* PIL can open, with its width and height.                                *)
(***************************************************************************)
Dirs == { <<>>, <<"s">>, <<"s", "t">> }

Children(d) == { c \in Dirs : Len(c) = Len(d) + 1 /\ SubSeq(c, 1, Len(d)) = d }

File(d, n, sz, img, w, h) ==
    [dir |-> d, name |-> n, size |-> sz, readable |-> img, width |-> w, height |-> h]

\* the files a tree may hold
Catalog ==
    { File(<<>>, <<"b", ".", "1", ".", "e">>, 2, TRUE, 2, 1),
      File(<<>>, <<"b", ".", "3", ".", "e">>, 1280, TRUE, 1, 1),
      File(<<>>, <<"b", ".", "0", "1", ".", "e">>, 0, TRUE, 2, 1),
      File(<<>>, <<"b", ".", "d", ".", "1", ".", "e">>, 1, FALSE, 0, 0),
      File(<<>>, <<"b", "-", "1", ".", "e">>, 1, FALSE, 0, 0),
      File(<<"s">>, <<"b", ".", "1", ".", "e">>, 2, TRUE, 2, 1),
      File(<<"s", "t">>, <<"b", ".", "1", ".", "e">>, 2, TRUE, 2, 1) }

\* every order in which the elements of a set can be listed
RECURSIVE Orders(_)
Orders(S) ==
    IF S = {} THEN {<<>>}
    ELSE UNION { { <<x>> \o rest : rest \in Orders(S \ {x}) } : x \in S }

\* os.path.relpath(root, base_path), root given by its names below base_path
relpath(root) ==
    IF Len(root) = 0 THEN <<".">>
    ELSE join(<<"/">>, [i \in 1..Len(root) |-> <<root[i]>>])

\* os.path.join(relative_path, full_name)
path_join(a, b) == IF Len(a) = 0 THEN b
                   ELSE IF a[Len(a)] = "/" THEN a \o b
                   ELSE a \o <<"/">> \o b

VARIABLES
    files,       \* the files on disk
    listing,     \* listing[d]: the order in which the OS lists d (files, dirs)
    args,        \* the parsed command line
    caller,      \* "main", or "api" when detect_sequences is called directly
    call,        \* the arguments of the running detect_sequences call
    pc,          \* where the program is
    stack,       \* the explore_directory calls in progress, innermost last
    sequences,   \* the dict of detect_sequences
    results,     \* the list detect_sequences returned
    printed,     \* the text of each display_results call, a list of lines
    seen,        \* history: the files the loop over `files` has reached
    io_log,      \* history: the Image.open and os.path.getsize calls
    placed       \* history: the file and the dict slot of each append

vars == << files, listing, args, caller, call, pc, stack, sequences, results,
           printed, seen, io_log, placed >>

\* os.walk(top): top-down, each directory before its subdirectories, the
\* subdirectories in listing order
RECURSIVE walk_from(_, _)
walk_from(top, ls) ==
    LET RECURSIVE each(_)
        each(ds) == IF Len(ds) = 0 THEN <<>>
                    ELSE walk_from(ds[1], ls) \o each(Tail(ds))
    IN  <<top>> \o each(ls[top].dirs)

os_walk(top) == walk_from(top, listing)

(***************************************************************************)
(* detect_sequences, first half: explore_directory.                        *)
(***************************************************************************)
\* a call explore_directory(current_directory, current_depth, base_path):
\* the early return, else the os.walk generator is created
explore_directory(stk, current_directory, current_depth, depth) ==
    IF current_depth > depth THEN stk
    ELSE Append(stk, [current_depth |-> current_depth,
                      walk |-> os_walk(current_directory),
                      at |-> "walk",
                      root |-> <<>>,
                      files |-> <<>>,
                      dirs |-> <<>>])

top == stack[Len(stack)]
set_top(f) == [stack EXCEPT ![Len(stack)] = f]
pop == SubSeq(stack, 1, Len(stack) - 1)

\* relative_depth = os.path.relpath(root, base_path).count(os.sep) + 1
relative_depth(root) == count(relpath(root), "/") + 1

\* key_of with the digit count of the frame number as the padding
key_of_value_padding(match, root) ==
    << match.base_name, match.sub_category, Len(str(int(match.frame_text))),
       match.extension, relpath(root) >>

\* the key of a matched file in the directory root
key_of(match, root) ==
    << match.base_name, match.sub_category, Len(match.frame_text),
       match.extension, relpath(root) >>

\* Image_open with the failure swallowed: the resolution is left unknown
Image_open_guarded(f) ==
    IF f.readable
    THEN [ok |-> TRUE, resolution |-> str(f.width) \o <<"x">> \o str(f.height)]
    ELSE [ok |-> TRUE, resolution |-> NoneStr]

\* Image.open(file_path): ok = FALSE when PIL raises
Image_open(f) ==
    IF f.readable
    THEN [ok |-> TRUE, resolution |-> str(f.width) \o <<"x">> \o str(f.height)]
    ELSE [ok |-> FALSE, resolution |-> NoneStr]

\* os.path.getsize(file_path)
getsize(f) == f.size

\* the file root/filename
file_at(root, filename) ==
    CHOOSE f \in files : f.dir = root /\ f.name = filename

\* the next (root, dirs, files) of os.walk, and the two `continue` tests
walk_next ==
    /\ pc = "scan" /\ top.at = "walk" /\ Len(top.walk) > 0
    /\ LET root == Head(top.walk)
           rest == [top EXCEPT !.walk = Tail(@)]
       IN  IF ~call.recursive /\ root # <<>> THEN stack' = set_top(rest)
           ELSE IF relative_depth(root) > call.depth THEN stack' = set_top(rest)
           ELSE stack' = set_top([rest EXCEPT !.at = "files",
                                              !.root = root,
                                              !.files = listing[root].files])
    /\ UNCHANGED << files, listing, args, caller, call, pc, sequences, results,
                    printed, seen, io_log, placed >>

\* os.walk is exhausted: explore_directory returns
walk_end ==
    /\ pc = "scan" /\ top.at = "walk" /\ Len(top.walk) = 0
    /\ stack' = pop
    /\ pc' = IF Len(stack) = 1 THEN "analyze" ELSE "scan"
    /\ UNCHANGED << files, listing, args, caller, call, sequences, results,
                    printed, seen, io_log, placed >>

\* one iteration of `for filename in files`
process_file ==
    /\ pc = "scan" /\ top.at = "files" /\ Len(top.files) > 0
    /\ LET filename == Head(top.files)
           f == file_at(top.root, filename)
           match == regex_match(filename)
           img == Image_open(f)
           rest == [top EXCEPT !.files = Tail(@)]
       IN  /\ seen' = seen \cup {f}
           /\ IF ~match.ok THEN
                  /\ stack' = set_top(rest)
                  /\ UNCHANGED << pc, sequences, io_log, placed >>
              ELSE IF call.include_resolution /\ ~img.ok THEN
                  \* the exception leaves detect_sequences and main
                  /\ pc' = "raised"
                  /\ stack' = <<>>
                  /\ io_log' = Append(io_log, [op |-> "open", file |-> f])
                  /\ UNCHANGED << sequences, placed >>
              ELSE
                  LET key == key_of(match, top.root)
                      resolution == IF call.include_resolution
                                    THEN img.resolution ELSE NoneStr
                      file_size == IF call.include_size THEN getsize(f)
                                   ELSE NoneInt
                      after == dict_append(sequences, key,
                                   <<int(match.frame_text), resolution, file_size>>)
                  IN  /\ sequences' = after
                      /\ stack' = set_top(rest)
                      /\ io_log' = io_log
                            \o (IF call.include_resolution
                                THEN <<[op |-> "open", file |-> f]>> ELSE <<>>)
                            \o (IF call.include_size
                                THEN <<[op |-> "stat", file |-> f]>> ELSE <<>>)
                      /\ placed' = Append(placed,
                                     [file |-> f, slot |-> dict_index(after, key)])
                      /\ UNCHANGED pc
    /\ UNCHANGED << files, listing, args, caller, call, results, printed >>

\* the files of root are done: `if recursive and current_depth < depth`
files_end ==
    /\ pc = "scan" /\ top.at = "files" /\ Len(top.files) = 0
    /\ stack' = set_top([top EXCEPT
                           !.at = "dirs",
                           !.dirs = IF call.recursive /\ top.current_depth < call.depth
                                    THEN listing[top.root].dirs ELSE <<>>])
    /\ UNCHANGED << files, listing, args, caller, call, pc, sequences, results,
                    printed, seen, io_log, placed >>

\* one iteration of `for subdir in dirs`: the recursive call
recurse ==
    /\ pc = "scan" /\ top.at = "dirs" /\ Len(top.dirs) > 0
    /\ stack' = explore_directory(set_top([top EXCEPT !.dirs = Tail(@)]),
                                  Head(top.dirs), top.current_depth + 1,
                                  call.depth)
    /\ UNCHANGED << files, listing, args, caller, call, pc, sequences, results,
                    printed, seen, io_log, placed >>

\* the end of the body of the os.walk loop: `if not recursive: break`
dirs_end ==
    /\ pc = "scan" /\ top.at = "dirs" /\ Len(top.dirs) = 0
    /\ IF ~call.recursive
       THEN /\ stack' = pop
            /\ pc' = IF Len(stack) = 1 THEN "analyze" ELSE "scan"
       ELSE /\ stack' = set_top([top EXCEPT !.at = "walk"])
            /\ UNCHANGED pc
    /\ UNCHANGED << files, listing, args, caller, call, sequences, results,
                    printed, seen, io_log, placed >>

\* the loop over sequences.items() and `return results`
analyze ==
    /\ pc = "analyze"
    /\ results' \in summaries(sequences)
    /\ pc' = IF caller = "main" THEN "display" ELSE "returned"
    /\ UNCHANGED << files, listing, args, caller, call, stack, sequences,
                    printed, seen, io_log, placed >>

(***************************************************************************)
(* format_size and display_results.                                        *)
(***************************************************************************)
RECURSIVE pow1024(_)
pow1024(k) == IF k = 0 THEN 1 ELSE 1024 * pow1024(k - 1)

units == << <<"B">>, <<"K", "B">>, <<"M", "B">>, <<"G", "B">>, <<"T", "B">> >>

\* f"{size / 1024**k:.1f}": the quotient is exact in binary floating point
\* and is rounded to one decimal, ties to even
one_decimal(size, k) ==
    LET n == size * 10
        d == pow1024(k)
        q == n \div d
        r == n % d
        tenths == IF 2 * r > d \/ (2 * r = d /\ q % 2 = 1) THEN q + 1 ELSE q
    IN  str(tenths \div 10) \o <<".">> \o str(tenths % 10)

\* format_size(size): NoneStr is the None returned when no unit fits
RECURSIVE format_size_from(_, _)
format_size_from(size, k) ==
    IF k >= Len(units) THEN NoneStr
    ELSE IF size < pow1024(k + 1)
         THEN one_decimal(size, k) \o <<" ">> \o units[k + 1]
         ELSE format_size_from(size, k + 1)

format_size(size) == format_size_from(size, 0)

\* the key of results.sort, compared as Python compares tuples:
\* (x[0], x[1], x[3], x[2] != "", x[2])
sort_key_less(a, b) ==
    IF a.relative_path # b.relative_path
        THEN StrLess(a.relative_path, b.relative_path)
    ELSE IF a.name # b.name THEN StrLess(a.name, b.name)
    ELSE IF a.frame_range # b.frame_range
        THEN StrLess(a.frame_range, b.frame_range)
    ELSE IF (a.sub_category # <<>>) # (b.sub_category # <<>>)
        THEN a.sub_category = <<>>
    ELSE StrLess(a.sub_category, b.sub_category)

\* insert_result of a sort that is not stable: x goes before the first
\* element whose key is not smaller
RECURSIVE insert_result_unstable(_, _)
insert_result_unstable(lst, x) ==
    IF Len(lst) = 0 THEN <<x>>
    ELSE IF ~sort_key_less(lst[1], x) THEN <<x>> \o lst
    ELSE <<lst[1]>> \o insert_result_unstable(Tail(lst), x)

\* list.sort is stable: x goes before the first element with a larger key
RECURSIVE insert_result(_, _)
insert_result(lst, x) ==
    IF Len(lst) = 0 THEN <<x>>
    ELSE IF sort_key_less(x, lst[1]) THEN <<x>> \o lst
    ELSE <<lst[1]>> \o insert_result(Tail(lst), x)

RECURSIVE sort_results(_)
sort_results(rs) ==
    IF Len(rs) = 0 THEN <<>>
    ELSE insert_result(sort_results(SubSeq(rs, 1, Len(rs) - 1)), rs[Len(rs)])

\* rv_lines with the blank line printed before every group, the first too
RECURSIVE rv_lines_blank_first(_, _)
rv_lines_blank_first(rs, last_relative_path) ==
    IF Len(rs) = 0 THEN <<>>
    ELSE
        LET r == rs[1]
            full_name == r.name \o r.sub_category \o <<".", "*", ".">> \o r.extension
        IN  (IF r.relative_path # last_relative_path THEN << <<>> >> ELSE <<>>)
            \o << <<"r", "v", " ">>
                  \o (IF r.relative_path # <<".">>
                      THEN path_join(r.relative_path, full_name)
                      ELSE full_name) >>
            \o rv_lines_blank_first(Tail(rs), r.relative_path)

\* the rv_mode loop: the lines printed for the sorted results
RECURSIVE rv_lines(_, _)
rv_lines(rs, last_relative_path) ==
    IF Len(rs) = 0 THEN <<>>
    ELSE
        LET r == rs[1]
            full_name == r.name \o r.sub_category \o <<".", "*", ".">> \o r.extension
        IN  (IF r.relative_path # last_relative_path /\ last_relative_path # NoneStr
             THEN << <<>> >> ELSE <<>>)
            \o << <<"r", "v", " ">>
                  \o (IF r.relative_path # <<".">>
                      THEN path_join(r.relative_path, full_name)
                      ELSE full_name) >>
            \o rv_lines(Tail(rs), r.relative_path)

\* max(len(res[0]) for res in results), results not empty
RECURSIVE max_path(_)
max_path(rs) ==
    IF Len(rs) = 1 THEN Len(rs[1].relative_path)
    ELSE LET m == max_path(Tail(rs))
         IN  IF Len(rs[1].relative_path) > m THEN Len(rs[1].relative_path) ELSE m

table_header(max_path_len, include_resolution, include_size, include_count) ==
    ljust(<<"p", "a", "t", "h">>, max_path_len) \o <<" ">>
    \o ljust(<<"n", "a", "m", "e">>, 20) \o <<" ">>
    \o ljust(<<"r", "a", "n", "g", "e">>, 15) \o <<" ">>
    \o ljust(<<"p", "a", "d">>, 4) \o <<" ">>
    \o ljust(<<"e", "x", "t">>, 4)
    \o (IF include_count THEN <<" ">> \o ljust(<<"c", "o", "u", "n", "t">>, 6)
        ELSE <<>>)
    \o (IF include_resolution
        THEN <<" ">> \o ljust(<<"r", "e", "s", "o", "l", "u", "t", "i", "o", "n">>, 12)
        ELSE <<>>)
    \o (IF include_size
        THEN <<" ", " ", " ", " ">> \o ljust(<<"s", "i", "z", "e">>, 10) \o <<" ">>
             \o ljust(<<"a", "v", "g", " ", "s", "i", "z", "e">>, 10)
        ELSE <<>>)
    \o <<" ">> \o ljust(<<"m", "i", "s", "s", "i", "n", "g">>, 20)

\* the line of one row; raised when a None meets a format specification
table_line(r, path_display, max_path_len, include_resolution, include_size, include_count) ==
    LET size_str == IF r.total_size # 0 THEN format_size(r.total_size) ELSE <<>>
        avg_size_str == IF r.average_size # NoneInt /\ r.average_size # 0
                        THEN format_size(r.average_size) ELSE <<>>
    IN  [raised |-> \/ include_resolution /\ r.resolution = NoneStr
                    \/ include_size /\ (size_str = NoneStr \/ avg_size_str = NoneStr),
         line |-> ljust(path_display, max_path_len) \o <<" ">>
                  \o ljust(r.name \o r.sub_category, 20) \o <<" ">>
                  \o ljust(r.frame_range, 15) \o <<" ">>
                  \o ljust(r.padding, 4) \o <<" ">>
                  \o ljust(r.extension, 4)
                  \o (IF include_count THEN <<" ">> \o ljust(str(r.count), 6)
                      ELSE <<>>)
                  \o (IF include_resolution THEN <<" ">> \o ljust(r.resolution, 12)
                      ELSE <<>>)
                  \o (IF include_size
                      THEN <<" ", " ", " ", " ">> \o ljust(size_str, 10) \o <<" ">>
                           \o ljust(avg_size_str, 10)
                      ELSE <<>>)
                  \o <<" ">> \o ljust(r.missing, 20)]

\* the table loop: the lines printed, and whether an exception ended it
RECURSIVE table_rows(_, _, _, _, _, _, _)
table_rows(rs, last_relative_path, width, max_path_len, include_resolution, include_size, include_count) ==
    IF Len(rs) = 0 THEN [lines |-> <<>>, raised |-> FALSE]
    ELSE
        LET r == rs[1]
            rule == IF r.relative_path # last_relative_path
                       /\ last_relative_path # NoneStr
                    THEN <<Repeat("-", width)>> ELSE <<>>
            path_display == IF r.relative_path # last_relative_path
                            THEN r.relative_path ELSE <<>>
            row == table_line(r, path_display, max_path_len, include_resolution,
                              include_size, include_count)
            rest == table_rows(Tail(rs), r.relative_path, width, max_path_len,
                               include_resolution, include_size, include_count)
        IN  IF row.raised THEN [lines |-> rule, raised |-> TRUE]
            ELSE [lines |-> rule \o <<row.line>> \o rest.lines,
                  raised |-> rest.raised]

\* display_results: the list after the in-place sort, the lines printed, and
\* whether an exception ended the call
display_results(rs, include_resolution, include_size, include_count, rv_mode) ==
    LET sorted == sort_results(rs)
    IN  IF rv_mode THEN
            [results |-> sorted, lines |-> rv_lines(sorted, NoneStr), raised |-> FALSE]
        ELSE IF Len(sorted) = 0 THEN
            \* max() of an empty sequence
            [results |-> sorted, lines |-> <<>>, raised |-> TRUE]
        ELSE
            LET longest == max_path(sorted) + 2
                max_path_len == IF longest < 30 THEN longest ELSE 30
                header == table_header(max_path_len, include_resolution,
                                       include_size, include_count)
                rows == table_rows(sorted, NoneStr, Len(header), max_path_len,
                                   include_resolution, include_size, include_count)
            IN  [results |-> sorted,
                 lines |-> <<header, Repeat("=", Len(header))>> \o rows.lines,
                 raised |-> rows.raised]

(***************************************************************************)
(* main.                                                                   *)
(***************************************************************************)
\* args.rv forces the resolution off, a scan that is not recursive has depth 1
normalized(a) ==
    [a EXCEPT !.resolution = IF a.rv THEN FALSE ELSE @,
              !.depth = IF ~a.recursive THEN 1 ELSE @]

\* detect_sequences walking the subdirectories whatever `recursive` says
detect_sequences_recursive(a, who) ==
    /\ caller' = who
    /\ call' = [recursive |-> TRUE, depth |-> a.depth,
                include_resolution |-> a.resolution, include_size |-> a.size]
    /\ sequences' = <<>>
    /\ stack' = explore_directory(<<>>, <<>>, 1, a.depth)
    /\ pc' = IF 1 > a.depth THEN "analyze" ELSE "scan"

\* the call detect_sequences(directory, recursive, depth, include_resolution,
\* include_size) and its first explore_directory(directory, 1, directory)
detect_sequences(a, who) ==
    /\ caller' = who
    /\ call' = [recursive |-> a.recursive, depth |-> a.depth,
                include_resolution |-> a.resolution, include_size |-> a.size]
    /\ sequences' = <<>>
    /\ stack' = explore_directory(<<>>, <<>>, 1, a.depth)
    /\ pc' = IF 1 > a.depth THEN "analyze" ELSE "scan"

main ==
    /\ pc = "start"
    /\ args' = normalized(args)
    /\ detect_sequences(normalized(args), "main")
    /\ UNCHANGED << files, listing, results, printed, seen, io_log, placed >>

\* detect_sequences called as a function, with the arguments as given
api_call ==
    /\ pc = "start"
    /\ ~args.rv /\ ~args.count
    /\ detect_sequences(args, "api")
    /\ UNCHANGED << files, listing, args, results, printed, seen, io_log, placed >>

\* the display_results call of main
display ==
    /\ pc = "display"
    /\ LET d == display_results(results, args.resolution, args.size, args.count,
                                args.rv)
       IN  /\ results' = d.results
           /\ printed' = Append(printed, d.lines)
           /\ pc' = IF d.raised THEN "display_raised" ELSE "done"
    /\ UNCHANGED << files, listing, args, caller, call, stack, sequences, seen,
                    io_log, placed >>

\* display_results called again on the list the first call has sorted
display_again ==
    /\ pc \in {"done", "display_raised"} /\ Len(printed) = 1
    /\ LET d == display_results(results, args.resolution, args.size, args.count,
                                args.rv)
       IN  /\ results' = d.results
           /\ printed' = Append(printed, d.lines)
           /\ pc' = IF d.raised THEN "display_raised" ELSE "done"
    /\ UNCHANGED << files, listing, args, caller, call, stack, sequences, seen,
                    io_log, placed >>

(***************************************************************************)
(* Specifications.                                                         *)
(***************************************************************************)
Args == [recursive : BOOLEAN, depth : 0..MaxDepthArg, resolution : BOOLEAN,
         size : BOOLEAN, count : BOOLEAN, rv : BOOLEAN]

NoListing == [d \in Dirs |-> [files |-> <<>>, dirs |-> <<>>]]

\* the orders in which the OS may list the directories of a tree
RECURSIVE ListingsOver(_, _)
ListingsOver(D, F) ==
    IF D = {} THEN { <<>> }
    ELSE LET d == CHOOSE x \in D : TRUE
             names == { f.name : f \in { g \in F : g.dir = d } }
         IN  { (d :> [files |-> fo, dirs |-> do]) @@ l :
                 fo \in Orders(names),
                 do \in Orders(Children(d)),
                 l \in ListingsOver(D \ {d}, F) }

Listings(F) == ListingsOver(Dirs, F)

\* a scan: any tree of at most MaxFiles files, any command line (the count
\* column is left to the rendering specification)
Init ==
    /\ files \in { F \in SUBSET Catalog : Cardinality(F) <= MaxFiles }
    /\ listing \in Listings(files)
    /\ args \in { a \in Args : ~a.count }
    /\ caller = "main"
    /\ call = [recursive |-> FALSE, depth |-> 1, include_resolution |-> FALSE,
               include_size |-> FALSE]
    /\ pc = "start"
    /\ stack = <<>>
    /\ sequences = <<>>
    /\ results = <<>>
    /\ printed = <<>>
    /\ seen = {}
    /\ io_log = <<>>
    /\ placed = <<>>

Next ==
    \/ main
    \/ api_call
    \/ walk_next
    \/ walk_end
    \/ process_file
    \/ files_end
    \/ recurse
    \/ dirs_end
    \/ analyze
    \/ display

Spec == Init /\ [][Next]_vars

(***************************************************************************)
(* The analysis alone: detect_sequences from the point where the walk has  *)
(* filled one bucket of the dict.  A bucket holds the frames of the files  *)
(* of one sequence in listing order, once per visit of their directory.    *)
(***************************************************************************)
\* the sequences of length n of distinct elements of S
RECURSIVE Injective(_, _)
Injective(S, n) ==
    IF n = 0 THEN {<<>>}
    ELSE UNION { { <<x>> \o rest : rest \in Injective(S \ {x}, n - 1) } : x \in S }

RECURSIVE Times(_, _)
Times(pass, k) == IF k = 0 THEN <<>> ELSE pass \o Times(pass, k - 1)

\* every assignment of a size to the positions of a pass
RECURSIVE WithSizes(_, _)
WithSizes(pass, Sizes) ==
    IF Len(pass) = 0 THEN {<<>>}
    ELSE { << <<pass[1], NoneStr, sz>> >> \o rest :
             sz \in Sizes, rest \in WithSizes(Tail(pass), Sizes) }

\* the buckets for the gap analysis (sizes not requested) and for the size
\* statistics (sizes requested)
GapBuckets ==
    { Times(p, k) :
        p \in UNION { WithSizes(q, {NoneInt}) :
                        q \in UNION { Injective(0..MaxFrame, n) : n \in 1..MaxLen } },
        k \in 1..MaxVisits }

SizeBuckets ==
    { Times(p, k) :
        p \in UNION { WithSizes(q, 0..MaxSize) :
                        q \in UNION { Injective(1..MaxLen, n) : n \in 1..MaxLen } },
        k \in 1..MaxVisits }

GapKey == << <<"a">>, <<>>, 2, <<"e">>, <<".">> >>

InitGap ==
    /\ files = {}
    /\ listing = NoListing
    /\ args = [recursive |-> FALSE, depth |-> 1, resolution |-> FALSE,
               size |-> FALSE, count |-> FALSE, rv |-> FALSE]
    /\ caller = "api"
    /\ \E sized \in BOOLEAN :
          /\ call = [recursive |-> FALSE, depth |-> 1,
                     include_resolution |-> FALSE, include_size |-> sized]
          /\ \E b \in (IF sized THEN SizeBuckets ELSE GapBuckets) :
                sequences = << [key |-> GapKey, frames |-> b] >>
    /\ pc = "analyze"
    /\ stack = <<>>
    /\ results = <<>>
    /\ printed = <<>>
    /\ seen = {}
    /\ io_log = <<>>
    /\ placed = <<>>

NextGap == analyze

SpecGap == InitGap /\ [][NextGap]_vars

(***************************************************************************)
(* The renderer alone: display_results on a list detect_sequences can      *)
(* return.  The summaries of the scan root come first (os.walk is          *)
(* top-down); within a directory the order is the listing order.           *)
(***************************************************************************)
RenderKeys ==
    { << <<"b">>, <<>>, 1, <<"e">>, <<".">> >>,
      << <<"b">>, <<>>, 2, <<"e">>, <<".">> >>,
      << <<"b">>, <<".", "d">>, 1, <<"e">>, <<".">> >>,
      << <<"b">>, <<>>, 1, <<"j">>, <<".">> >>,
      << <<"b">>, <<>>, 1, <<"e">>, <<"s">> >>,
      << <<"c">>, <<>>, 1, <<"e">>, <<"s">> >> }

\* the buckets of a rendered sequence: frame 1, or frames 3 and 1
RenderBuckets(with_resolution, with_size) ==
    LET res == IF with_resolution THEN <<"2", "x", "1">> ELSE NoneStr
        sz(n) == IF with_size THEN n ELSE NoneInt
    IN  { << <<1, res, sz(2)>> >>,
          << <<3, res, sz(1280)>>, <<1, res, sz(2)>> >> }

RenderSummaries(with_resolution, with_size) ==
    UNION { UNION { { summary(k, b, r) : r \in resolution_strs(b) } :
                      b \in RenderBuckets(with_resolution, with_size) } :
              k \in RenderKeys }

summary_key(r) ==
    << r.name, r.sub_category, r.padding, r.extension, r.relative_path >>

\* the lists a walk can produce: distinct keys, the scan root first
WalkOrdered(rs) ==
    /\ \A i, j \in 1..Len(rs) : i # j => summary_key(rs[i]) # summary_key(rs[j])
    /\ \A i, j \in 1..Len(rs) :
          i < j => ~(rs[i].relative_path # <<".">> /\ rs[j].relative_path = <<".">>)

RECURSIVE ListsOf(_, _)
ListsOf(S, n) ==
    IF n = 0 THEN {<<>>}
    ELSE { Append(l, x) : l \in { m \in ListsOf(S, n - 1) : WalkOrdered(m) }, x \in S }

RenderArgs == { a \in Args : a.recursive /\ a.depth = 1 }

InitRender ==
    /\ files = {}
    /\ listing = NoListing
    /\ args \in RenderArgs
    /\ caller = "main"
    /\ call = [recursive |-> TRUE, depth |-> 1,
               include_resolution |-> args.resolution /\ ~args.rv,
               include_size |-> args.size]
    /\ pc = "display"
    /\ stack = <<>>
    /\ sequences = <<>>
    /\ results \in { l \in UNION { ListsOf(RenderSummaries(call.include_resolution,
                                                           call.include_size), n) :
                                     n \in 0..MaxSeqs } : WalkOrdered(l) }
    /\ printed = <<>>
    /\ seen = {}
    /\ io_log = <<>>
    /\ placed = <<>>

NextRender == display \/ display_again

SpecRender == InitRender /\ [][NextRender]_vars

(***************************************************************************)
(* Properties.                                                             *)
(***************************************************************************)
\* the frame numbers of a bucket
FrameNumbers(frames) == { frames[k][1] : k \in 1..Len(frames) }

SetMin(S) == CHOOSE x \in S : \A y \in S : x <= y
SetMax(S) == CHOOSE x \in S : \A y \in S : x >= y

\* the maximal runs a..b of integers between the smallest and the largest
\* element of ns that are not in ns
AbsentRuns(ns) ==
    LET absent == { n \in SetMin(ns)..SetMax(ns) : n \notin ns }
    IN  { <<a, b>> \in absent \X absent :
            /\ a <= b
            /\ \A n \in a..b : n \in absent
            /\ (a - 1) \notin absent
            /\ (b + 1) \notin absent }

\* the runs in ascending order, each written as the claim writes it
RECURSIVE RunTexts(_)
RunTexts(runs) ==
    IF runs = {} THEN <<>>
    ELSE LET r == CHOOSE x \in runs : \A y \in runs : x[1] <= y[1]
         IN  << IF r[1] = r[2] THEN str(r[1])
                ELSE str(r[1]) \o <<"-">> \o str(r[2]) >>
             \o RunTexts(runs \ {r})

\* C1: for every non-empty bucket of frame numbers (duplicates allowed) the
\* summary has the range [min-max] and lists exactly the maximal runs of
\* absent integers between min and max, ascending, a run of one number as
\* the number and a longer one as start-end; one frame number gives no run.
C1_MissingRanges ==
    pc = "returned" =>
        LET ns == FrameNumbers(sequences[1].frames)
            r == results[1]
            texts == RunTexts(AbsentRuns(ns))
        IN  /\ Len(results) = 1
            /\ r.frame_range = <<"[">> \o str(SetMin(ns)) \o <<"-">>
                               \o str(SetMax(ns)) \o <<"]">>
            /\ r.missing = IF Len(texts) = 0 THEN <<>>
                           ELSE <<"[">> \o join(<<",", " ">>, texts) \o <<"]">>
            /\ (Cardinality(ns) = 1 => r.missing = <<>>)

\* frames 1, 5 and 10, each reached twice: two runs, 2-4 and 6-9
C1_Witness ==
    /\ pc = "returned"
    /\ FrameNumbers(sequences[1].frames) = {1, 5, 10}
    /\ Len(sequences[1].frames) = 6
    /\ results[1].missing
         = <<"[", "2", "-", "4", ",", " ", "6", "-", "9", "]">>

\* the matched files of the tree that have the key of the summary r
FilesOf(r) ==
    { f \in files :
        /\ regex_match(f.name).ok
        /\ LET m == regex_match(f.name)
           IN  << m.base_name, m.sub_category, str(Len(m.frame_text)),
                  m.extension, relpath(f.dir) >> = summary_key(r) }

RECURSIVE SumOfSizes(_)
SumOfSizes(F) ==
    IF F = {} THEN 0
    ELSE LET f == CHOOSE x \in F : TRUE IN f.size + SumOfSizes(F \ {f})

\* C2: a scan appends one frame per matched file it reports, so the count of
\* a summary is the number of files on disk with its key and its total size
\* is the sum of their sizes, each counted once.
C2_OneRecordPerFile ==
    /\ \A i, j \in 1..Len(placed) : placed[i].file = placed[j].file => i = j
    /\ pc \in {"returned", "display"} =>
          \A i \in 1..Len(results) :
              /\ results[i].count = Cardinality(FilesOf(results[i]))
              /\ call.include_size =>
                    results[i].total_size = SumOfSizes(FilesOf(results[i]))

\* C3: in recursive mode, with the scan root at depth 1 and a directory k
\* levels below it at depth k + 1, only files of directories of depth at
\* most maxDepth are matched.
C3_DepthLimit ==
    call.recursive =>
        \A i \in 1..Len(placed) : Len(placed[i].file.dir) + 1 <= call.depth

\* C4: when the scan is not recursive, whatever depth is requested, only
\* direct children of the scan root are reached, read, matched or reported.
C4_NonRecursiveRootOnly ==
    ~args.recursive =>
        /\ \A f \in seen : f.dir = <<>>
        /\ \A i \in 1..Len(io_log) : io_log[i].file.dir = <<>>
        /\ \A i \in 1..Len(placed) : placed[i].file.dir = <<>>
        /\ \A i \in 1..Len(sequences) : sequences[i].key[5] = <<".">>
        /\ \A i \in 1..Len(results) : results[i].relative_path = <<".">>

\* depth 2 requested without recursion, a matching file in a subdirectory
\* and one in the root: only the root is reported
C4_Witness ==
    /\ pc = "returned"
    /\ ~args.recursive /\ call.depth = 2
    /\ \E f \in files : f.dir # <<>> /\ regex_match(f.name).ok
    /\ Len(results) = 1 /\ Len(placed) = 1

\* the five fields of the claim for a matched file
FiveFields(f) ==
    LET m == regex_match(f.name)
    IN  [baseName |-> m.base_name,
         subCategory |-> m.sub_category,
         padding |-> Len(m.frame_text),
         extension |-> m.extension,
         relativePath |-> relpath(f.dir)]

\* the files appended to a bucket, and the dict slots a file was appended to
PlacedFiles == { placed[i].file : i \in 1..Len(placed) }
SlotsOf(f) == { placed[i].slot : i \in { k \in 1..Len(placed) : placed[k].file = f } }

\* C5: two matched files are put in the same bucket exactly when their base
\* name, sub-category, padding (length of the frame text), extension and
\* relative path are equal, and the result has exactly one summary for each
\* such key that has a file.
C5_SameSequenceIffSameKey ==
    /\ \A f, g \in PlacedFiles :
          LET same == FiveFields(f) = FiveFields(g)
          IN  \A a \in SlotsOf(f), b \in SlotsOf(g) : (a = b) <=> same
    /\ pc \in {"returned", "display"} =>
          /\ \A f \in PlacedFiles :
                Cardinality({ k \in 1..Len(results) : f \in FilesOf(results[k]) }) = 1
          /\ Len(results) = Cardinality({ FiveFields(f) : f \in PlacedFiles })

\* b.1.e and b.01.e of one directory are placed in two sequences
C5_Witness ==
    /\ pc = "returned"
    /\ Len(results) = 2
    /\ \E i, j \in 1..Len(placed) :
          /\ placed[i].file.name = <<"b", ".", "1", ".", "e">>
          /\ placed[j].file.name = <<"b", ".", "0", "1", ".", "e">>
          /\ placed[i].file.dir = placed[j].file.dir
          /\ placed[i].slot # placed[j].slot

\* the text t occurs in the line l
Contains(l, t) ==
    \E i \in 1..(Len(l) - Len(t) + 1) : SubSeq(l, i, i + Len(t) - 1) = t

\* the lines the claim expects for the sorted list rs
RECURSIVE PlayerLines(_, _)
PlayerLines(rs, i) ==
    IF i > Len(rs) THEN <<>>
    ELSE (IF i > 1 /\ rs[i].relative_path # rs[i - 1].relative_path
          THEN << <<>> >> ELSE <<>>)
         \o << <<"r", "v", " ">>
               \o (IF rs[i].relative_path = <<".">> THEN <<>>
                   ELSE rs[i].relative_path \o <<"/">>)
               \o rs[i].name \o rs[i].sub_category \o <<".", "*", ".">>
               \o rs[i].extension >>
         \o PlayerLines(rs, i + 1)

\* C6: in player mode a call prints one line rv <path/>base sub .*. ext per
\* sequence, the path left out at the scan root, a blank line exactly
\* between neighbours whose relative path differs, and no resolution,
\* whether or not the resolution was requested.
C6_PlayerLines ==
    (args.rv /\ Len(printed) >= 1) =>
        /\ printed[1] = PlayerLines(results, 1)
        /\ Cardinality({ k \in 1..Len(printed[1]) : printed[1][k] # <<>> })
             = Len(results)
        /\ \A k \in 1..Len(printed[1]) : ~Contains(printed[1][k], <<"2", "x", "1">>)

\* three sequences in two directories, the resolution requested
C6_Witness ==
    /\ args.rv /\ args.resolution
    /\ Len(printed) = 1
    /\ Len(results) = 3
    /\ printed[1] = << <<"r", "v", " ", "b", ".", "*", ".", "e">>,
                       <<"r", "v", " ", "b", ".", "d", ".", "*", ".", "e">>,
                       <<>>,
                       <<"r", "v", " ", "s", "/", "b", ".", "*", ".", "e">> >>

\* the set of the elements of a list
Range(l) == { l[i] : i \in 1..Len(l) }

\* C7: the text printed does not depend on the order in which the walk
\* found the sequences: every list of the same summaries that a walk can
\* produce is printed as the same text.
C7_OrderIndependent ==
    Len(printed) >= 1 =>
        \A o \in { l \in Orders(Range(results)) : WalkOrdered(l) } :
            display_results(o, args.resolution, args.size, args.count,
                            args.rv).lines = printed[1]

\* C8: a second display_results call on the list the first call has sorted
\* prints the same text as the first.
C8_RenderTwice ==
    Len(printed) = 2 => printed[1] = printed[2]

\* two calls on three sequences, two of which the sort key cannot tell apart
C8_Witness ==
    /\ Len(printed) = 2
    /\ Len(results) = 3
    /\ Len(printed[2]) >= 3
    /\ \E i, j \in 1..3 : i # j /\ ~sort_key_less(results[i], results[j])
                                /\ ~sort_key_less(results[j], results[i])

\* C9: when the resolution is read and the lookup fails on a matched file the
\* walk reaches, the scan ends there with no result and nothing printed;
\* when the resolution is not read, no file makes the scan fail.
C9_ResolutionFailureAborts ==
    /\ (call.include_resolution
          /\ \E f \in seen : regex_match(f.name).ok /\ ~f.readable)
       => (pc = "raised" /\ results = <<>> /\ printed = <<>>)
    /\ pc = "raised" => (results = <<>> /\ printed = <<>>)
    /\ ~call.include_resolution => pc # "raised"

\* the lookup fails after two files have been read and appended
C9_Witness ==
    /\ pc = "raised"
    /\ Len(placed) = 2
    /\ Len(io_log) = 3

RECURSIVE BucketSum(_)
BucketSum(frames) ==
    IF Len(frames) = 0 THEN 0 ELSE frames[1][3] + BucketSum(Tail(frames))

\* C10 as written: with the sizes read, the total is the sum of the sizes of
\* the frames and the average is the integer floor(total / count).
C10_AverageIsFloor ==
    (pc = "returned" /\ call.include_size) =>
        LET r == results[1]
        IN  /\ r.total_size = BucketSum(sequences[1].frames)
            /\ r.average_size # NoneInt
            /\ r.average_size * r.count <= r.total_size
            /\ r.total_size < (r.average_size + 1) * r.count

\* C10, amended: the total is the sum of the sizes; when the total is
\* positive the average is floor(total / count); when the total is 0 there
\* is no average (None).
C10_AverageIsFloorOrNone ==
    (pc = "returned" /\ call.include_size) =>
        LET r == results[1]
        IN  /\ r.total_size = BucketSum(sequences[1].frames)
            /\ r.count = Len(sequences[1].frames)
            /\ r.total_size > 0 =>
                  /\ r.average_size # NoneInt
                  /\ r.average_size * r.count <= r.total_size
                  /\ r.total_size < (r.average_size + 1) * r.count
            /\ r.total_size = 0 => r.average_size = NoneInt

\* three files of 2, 2 and 1 bytes: total 5, average 1
C10_Witness ==
    /\ pc = "returned" /\ call.include_size
    /\ results[1].count = 3
    /\ results[1].total_size = 5
    /\ results[1].average_size = 1

\* every Image.open and os.path.getsize call was made on a file whose name
\* matches the pattern, and no file that does not match ends the scan
ReadsMatchedOnly ==
    /\ \A i \in 1..Len(io_log) : regex_match(io_log[i].file.name).ok
    /\ pc = "raised" =>
          /\ Len(io_log) > 0
          /\ io_log[Len(io_log)].op = "open"
          /\ regex_match(io_log[Len(io_log)].file.name).ok
    /\ (\A f \in files : regex_match(f.name).ok => f.readable) => pc # "raised"

\* a resolution lookup only with include_resolution, a size stat only with
\* include_size
ReadsToggledOnly ==
    \A i \in 1..Len(io_log) :
        /\ io_log[i].op = "open" => call.include_resolution
        /\ io_log[i].op = "stat" => call.include_size

\* every read was made in a directory of depth at most maxDepth, the scan
\* root being at depth 1
ReadsWithinDepth ==
    \A i \in 1..Len(io_log) : Len(io_log[i].file.dir) + 1 <= call.depth

\* C11: a resolution lookup or a size stat is made only on a file whose name
\* matched the pattern and whose directory is within the depth limit, and
\* only when its toggle is set; a file that does not match is never opened
\* or stat-ed and never makes the scan fail.
C11_LazyReads ==
    /\ ReadsMatchedOnly
    /\ ReadsToggledOnly
    /\ ReadsWithinDepth

====
